---- MODULE Spec2Model ----
(***************************************************************************)
(* State-machine model of the bot's stateful cogs:                         *)
(*   - EventsCog / EventView / EventData   (src/bot/cogs/events.py)        *)
(*   - PomodoroCog / PomodoroSession       (src/bot/cogs/pomodoro.py)      *)
(*   - ScriptSessionCog                    (src/bot/cogs/script_session.py)*)
(*   - FunCog.trivia                       (src/bot/cogs/fun.py)           *)
(*                                                                         *)
(* All handlers run on one cooperative event loop: a handler runs without  *)
(* interruption from one await that really suspends (a message send, a     *)
(* sleep, wait_for) to the next.  Each action below is one such            *)
(* uninterrupted segment.  An await of a coroutine that never suspends     *)
(* (save_events, create_event_embed) does not end a segment.               *)
(***************************************************************************)
EXTENDS Integers, Sequences, FiniteSets, TLC

VARIABLES
    \* ---- events.py
    heap,        \* every EventData object ever constructed, by creation order
    events,      \* EventsCog.events: insertion-ordered dict, <<[key, obj]>>
    views,       \* per heap object, the number of EventView instances holding it
    file,        \* the entries of bot_events.json (none while the file is missing)
    pending,     \* button handlers suspended at interaction.response.send_message
    now,         \* wall clock, in minutes
    rpc,         \* check_reminders: "idle" | "iter" | "sending" | "stopped"
    rnow,        \* check_reminders: local `now` of the running pass
    rpos,        \* check_reminders: position of the dict iterator
    rused,       \* check_reminders: dict size the iterator was created with
    rcur,        \* check_reminders: heap index of the event being reminded
    nextRun,     \* tasks.loop: time of the next scheduled pass
    sent,        \* history: per heap object, number of send_event_reminder calls
    \* ---- pomodoro.py
    active_pomodoros, \* _active_pomodoros: channel -> session index (0 = no entry)
    sessions,    \* every PomodoroSession constructed, with the position of its run()
    slash,       \* per channel, pomodoro_slash handlers suspended at response.defer()
    \* ---- script_session.py
    active_sessions,  \* ScriptSessionCog.active_sessions: dict str(guild id) -> session
    PREDEFINED_PLAYS, \* module-level template table: dict key -> template
    uploads,          \* per guild, upload_script handlers suspended at attachment.read()
    \* ---- fun.py (trivia)
    current_trivia,   \* FunCog.current_trivia: channel -> answer ("" = no entry)
    handlers,         \* every trivia handler started, with its position
    \* ---- fun.py (hangman, tic-tac-toe)
    hangmen,          \* every HangmanView constructed, with its HangmanGame
    tictactoes,       \* every TicTacToe view constructed
    win_checked,      \* the last check_win call made on its own: view, symbol, result
    \* ---- helpers/checks.py
    user_command_timestamps, \* user id -> list of timestamps
    clock,            \* time.time(), in seconds
    allowed,          \* history: per user, the times of the calls that returned False
    rate_result,      \* per user, what the last call returned ("none" before any)
    \* ---- database/models.py
    game_stats,       \* the rows of table game_stats, in rowid order
    updates           \* history: per key, the won arguments of the successful updates

evVars   == <<heap, events, views, file, pending, now, rpc, rnow, rpos, rused,
              rcur, nextRun, sent>>
pomVars  == <<active_pomodoros, sessions, slash>>
scrVars  == <<active_sessions, PREDEFINED_PLAYS, uploads>>
trivVars == <<current_trivia, handlers>>
hangVars == <<hangmen>>
tttVars  == <<tictactoes, win_checked>>
rateVars == <<user_command_timestamps, clock, allowed, rate_result>>
statVars == <<game_stats, updates>>
vars     == <<evVars, pomVars, scrVars, trivVars, hangVars, tttVars, rateVars, statVars>>

\* ------------------------------------------------------------------------
\* Bounds and input sets
\* ------------------------------------------------------------------------
MaxEvents   == 2      \* EventData objects constructed in one run
RsvpEvents  == 1      \* the same, in the runs that press RSVP buttons
MaxViews    == 2      \* EventView instances opened on one event
MaxPending  == 1      \* button handlers suspended at the same time
MaxTime     == 8      \* the clock stops here
MaxSessions == 2      \* PomodoroSession objects constructed in one run
MaxSlash    == 2      \* pomodoro_slash handlers suspended at the same time, per channel
MaxTrivia   == 3      \* trivia questions asked in one run
MaxUploads  == 1      \* upload_script handlers suspended at the same time, per guild
MaxLines    == 2      \* lines of an addmultiple text or an uploaded file
MaxHangman  == 1      \* hangman commands in one run
MaxTicTacToe == 1     \* TicTacToe views constructed in one run
MaxRematch  == 1      \* rematches on one message
MaxUpdates  == 4      \* update_game_stats calls in one run

Users    == {1, 2}
Guilds   == {1, 2}
EventIds == {"a", "b"}      \* values of str(uuid.uuid4())[:8]
Channels == {1, 2}

\* ------------------------------------------------------------------------
\* Sequence helpers (Python list semantics)
\* ------------------------------------------------------------------------
Range(s) == {s[i] : i \in DOMAIN s}

In(x, s) == \E i \in DOMAIN s : s[i] = x

\* list.remove(x): removes the FIRST occurrence of x
FirstIndex(x, s) == CHOOSE i \in DOMAIN s : s[i] = x /\ \A j \in 1..(i-1) : s[j] # x

ListRemove(s, x) ==
    LET i == FirstIndex(x, s)
    IN  [j \in 1..(Len(s)-1) |-> IF j < i THEN s[j] ELSE s[j+1]]

\* number of occurrences of x in s
Count(x, s) == Cardinality({i \in DOMAIN s : s[i] = x})

\* ------------------------------------------------------------------------
\* events.py
\* ------------------------------------------------------------------------

Starts == {3, 8, 45}        \* start times a createevent command may name

\* EventData.__init__: both RSVP lists and flags start empty / False
EventData(event_id, creator_id, guild_id, start_time) ==
    [event_id           |-> event_id,
     creator_id         |-> creator_id,
     guild_id           |-> guild_id,
     start_time         |-> start_time,
     participants       |-> <<>>,
     maybe_participants |-> <<>>,
     not_attending      |-> <<>>,
     is_cancelled       |-> FALSE,
     reminder_sent      |-> FALSE]

\* EventData.to_dict: the stored dictionary; start_time goes through isoformat
to_dict(e) ==
    [event_id           |-> e.event_id,
     creator_id         |-> e.creator_id,
     guild_id           |-> e.guild_id,
     start_time         |-> <<"iso", e.start_time>>,
     participants       |-> e.participants,
     maybe_participants |-> e.maybe_participants,
     not_attending      |-> e.not_attending,
     is_cancelled       |-> e.is_cancelled,
     reminder_sent      |-> e.reminder_sent]

\* EventData.from_dict: the constructor on the stored values, start_time through
\* fromisoformat, then the lists and flags
from_dict(data) ==
    [EventData(data.event_id, data.creator_id, data.guild_id, data.start_time[2])
        EXCEPT !.participants       = data.participants,
               !.maybe_participants = data.maybe_participants,
               !.not_attending      = data.not_attending,
               !.is_cancelled       = data.is_cancelled,
               !.reminder_sent      = data.reminder_sent]

\* load_events, lines 193-204: what a start of the bot reads from the file,
\* as <<[key, event]>> in file order
load_events(f) == [i \in DOMAIN f |-> [key |-> f[i].key, event |-> from_dict(f[i].data)]]

\* dict helpers for EventsCog.events (insertion-ordered)
HasKey(d, k) == \E i \in DOMAIN d : d[i].key = k

KeyIndex(d, k) == CHOOSE i \in DOMAIN d : d[i].key = k

\* self.events.get(event_id): the heap index, or 0 for None
events_get(d, k) == IF HasKey(d, k) THEN d[KeyIndex(d, k)].obj ELSE 0

\* self.events[event_id] = event: a present key keeps its position and gets the
\* new value, a new key is appended
events_set(d, k, o) ==
    IF HasKey(d, k)
    THEN [d EXCEPT ![KeyIndex(d, k)].obj = o]
    ELSE Append(d, [key |-> k, obj |-> o])

\* save_events: {event_id: event.to_dict()} written over the file
save_events(d, h) == [i \in DOMAIN d |-> [key |-> d[i].key, data |-> to_dict(h[d[i].obj])]]

\* the event loop is free for another handler (check_reminders is not in the
\* middle of an uninterrupted segment)
LoopFree == rpc # "iter"

reminderVars == <<rpc, rnow, rpos, rused, rcur, nextRun, sent>>

\* the state of the other cogs, which no handler of this cog touches
notEvents == <<pomVars, scrVars, trivVars, hangVars, tttVars, rateVars, statVars>>

\* ---- EventView buttons: the list updates of each handler ----------------

\* attending_button without its second removal (lines 108-109 left out)
attending_lists_keeps_declined(e, user_id) ==
    LET m1 == IF In(user_id, e.maybe_participants)
              THEN ListRemove(e.maybe_participants, user_id) ELSE e.maybe_participants
        p1 == IF ~In(user_id, e.participants)
              THEN Append(e.participants, user_id) ELSE e.participants
    IN  [e EXCEPT !.participants = p1, !.maybe_participants = m1]

\* attending_button, lines 103-113
attending_lists(e, user_id) ==
    LET m1 == IF In(user_id, e.maybe_participants)
              THEN ListRemove(e.maybe_participants, user_id) ELSE e.maybe_participants
        n1 == IF In(user_id, e.not_attending)
              THEN ListRemove(e.not_attending, user_id) ELSE e.not_attending
        p1 == IF ~In(user_id, e.participants)
              THEN Append(e.participants, user_id) ELSE e.participants
    IN  [e EXCEPT !.participants = p1, !.maybe_participants = m1, !.not_attending = n1]

\* maybe_button, lines 128-138
maybe_lists(e, user_id) ==
    LET p1 == IF In(user_id, e.participants)
              THEN ListRemove(e.participants, user_id) ELSE e.participants
        n1 == IF In(user_id, e.not_attending)
              THEN ListRemove(e.not_attending, user_id) ELSE e.not_attending
        m1 == IF ~In(user_id, e.maybe_participants)
              THEN Append(e.maybe_participants, user_id) ELSE e.maybe_participants
    IN  [e EXCEPT !.participants = p1, !.maybe_participants = m1, !.not_attending = n1]

\* not_attending_button without its removal from maybe_participants (lines
\* 155-156 left out)
not_attending_lists_keeps_maybe(e, user_id) ==
    LET p1 == IF In(user_id, e.participants)
              THEN ListRemove(e.participants, user_id) ELSE e.participants
        n1 == IF ~In(user_id, e.not_attending)
              THEN Append(e.not_attending, user_id) ELSE e.not_attending
    IN  [e EXCEPT !.participants = p1, !.not_attending = n1]

\* not_attending_button, lines 153-163
not_attending_lists(e, user_id) ==
    LET p1 == IF In(user_id, e.participants)
              THEN ListRemove(e.participants, user_id) ELSE e.participants
        m1 == IF In(user_id, e.maybe_participants)
              THEN ListRemove(e.maybe_participants, user_id) ELSE e.maybe_participants
        n1 == IF ~In(user_id, e.not_attending)
              THEN Append(e.not_attending, user_id) ELSE e.not_attending
    IN  [e EXCEPT !.participants = p1, !.maybe_participants = m1, !.not_attending = n1]

\* A button handler up to its first suspension (interaction.response.send_message):
\* the lists of the view's event_data are updated, the save comes after the await.
Press(o, newEvent) ==
    /\ LoopFree
    /\ o \in DOMAIN heap
    /\ views[o] > 0
    /\ pending < MaxPending
    /\ heap' = [heap EXCEPT ![o] = newEvent]
    /\ pending' = pending + 1
    /\ UNCHANGED notEvents
    /\ UNCHANGED <<events, views, file, now, reminderVars>>

attending_button(o, user_id) == Press(o, attending_lists(heap[o], user_id))

maybe_button(o, user_id) == Press(o, maybe_lists(heap[o], user_id))

not_attending_button(o, user_id) == Press(o, not_attending_lists(heap[o], user_id))

\* The rest of a button handler, after send_message returned: cog.save_events(),
\* then the embed is edited (no state).
button_resume ==
    /\ LoopFree
    /\ pending > 0
    /\ pending' = pending - 1
    /\ file' = save_events(events, heap)
    /\ UNCHANGED notEvents
    /\ UNCHANGED <<heap, events, views, now, reminderVars>>

\* send_message raised (the interaction expired): the handler ends before the save
button_failed ==
    /\ LoopFree
    /\ pending > 0
    /\ pending' = pending - 1
    /\ UNCHANGED notEvents
    /\ UNCHANGED <<heap, events, views, file, now, reminderVars>>

\* ---- commands ----------------------------------------------------------

\* create_event, lines 356-426, for a command that passes the validation
\* (a start time in the past is answered "Invalid Date" and changes nothing).
\* event_id is the value generate_event_id returned.
create_event(author, guild, event_id, start_time) ==
    /\ LoopFree
    /\ ~(start_time < now)
    /\ LET o == Len(heap) + 1
           h == Append(heap, EventData(event_id, author, guild, start_time))
           d == events_set(events, event_id, o)
       IN  /\ heap' = h
           /\ events' = d
           /\ file' = save_events(d, h)
           /\ views' = Append(views, 1)
           /\ sent' = Append(sent, 0)
    /\ UNCHANGED notEvents
    /\ UNCHANGED <<pending, now, rpc, rnow, rpos, rused, rcur, nextRun>>

\* event_info, lines 484-508: a further EventView on the stored event
event_info(guild, event_id) ==
    /\ LoopFree
    /\ events_get(events, event_id) # 0
    /\ LET o == events_get(events, event_id)
       IN  /\ heap[o].guild_id = guild
           /\ views[o] < MaxViews
           /\ views' = [views EXCEPT ![o] = @ + 1]
    /\ UNCHANGED notEvents
    /\ UNCHANGED <<heap, events, file, pending, now, reminderVars>>

\* the checks of cancel_event without the permission check (lines 534-545 left out)
cancel_allowed_no_permission(d, h, author, guild, event_id, is_admin) ==
    /\ events_get(d, event_id) # 0
    /\ LET event == h[events_get(d, event_id)]
       IN  /\ event.guild_id = guild
           /\ ~event.is_cancelled

\* cancel_event, lines 514-554: the checks before "# Cancel event"
cancel_allowed(d, h, author, guild, event_id, is_admin) ==
    /\ events_get(d, event_id) # 0
    /\ LET event == h[events_get(d, event_id)]
       IN  /\ event.guild_id = guild
           /\ (author = event.creator_id \/ is_admin)
           /\ ~event.is_cancelled

\* cancel_event, lines 512-567; a refused command changes nothing
cancel_event(author, guild, event_id, is_admin) ==
    /\ LoopFree
    /\ cancel_allowed(events, heap, author, guild, event_id, is_admin)
    /\ LET o == events_get(events, event_id)
           h == [heap EXCEPT ![o].is_cancelled = TRUE]
       IN  /\ heap' = h
           /\ file' = save_events(events, h)
    /\ UNCHANGED notEvents
    /\ UNCHANGED <<events, views, pending, now, reminderVars>>

\* ---- check_reminders (tasks.loop) ---------------------------------------

LoopMinutes     == 5        \* @tasks.loop(minutes=5)
ReminderSeconds == 1800     \* time_until.total_seconds() <= 1800

\* the test of check_reminders without "not event.reminder_sent"
needs_reminder_ignores_flag(event, n) ==
    /\ ~event.is_cancelled
    /\ event.start_time > n
    /\ (event.start_time - n) * 60 <= ReminderSeconds

\* check_reminders, lines 575-580: the event gets a reminder in this pass
needs_reminder(event, n) ==
    /\ ~event.is_cancelled
    /\ ~event.reminder_sent
    /\ event.start_time > n
    /\ (event.start_time - n) * 60 <= ReminderSeconds

\* the loop starts a pass: now = utcnow(), the iterator over self.events.values()
reminder_start ==
    /\ rpc = "idle"
    /\ now >= nextRun
    /\ rpc' = "iter"
    /\ rnow' = now
    /\ rpos' = 1
    /\ rused' = Len(events)
    /\ nextRun' = nextRun + LoopMinutes
    /\ UNCHANGED notEvents
    /\ UNCHANGED <<heap, events, views, file, pending, now, rcur, sent>>

\* next() on the dict iterator after the dict changed size: RuntimeError leaves
\* check_reminders, and tasks.loop ends the loop on an unhandled exception
reminder_raise ==
    /\ rpc = "iter"
    /\ Len(events) # rused
    /\ rpc' = "stopped"
    /\ UNCHANGED notEvents
    /\ UNCHANGED <<heap, events, views, file, pending, now, rnow, rpos, rused,
                   rcur, nextRun, sent>>

\* the iterator is exhausted: the pass is over
reminder_end ==
    /\ rpc = "iter"
    /\ Len(events) = rused
    /\ rpos > Len(events)
    /\ rpc' = "idle"
    /\ UNCHANGED notEvents
    /\ UNCHANGED <<heap, events, views, file, pending, now, rnow, rpos, rused,
                   rcur, nextRun, sent>>

\* an event that needs no reminder is passed over
reminder_skip ==
    /\ rpc = "iter"
    /\ Len(events) = rused
    /\ rpos <= Len(events)
    /\ ~needs_reminder(heap[events[rpos].obj], rnow)
    /\ rpos' = rpos + 1
    /\ UNCHANGED notEvents
    /\ UNCHANGED <<heap, events, views, file, pending, now, rpc, rnow, rused,
                   rcur, nextRun, sent>>

\* send_event_reminder finds no channel (get_channel gave None) and returns at
\* once; check_reminders goes on: reminder_sent = True, save_events()
reminder_no_channel ==
    /\ rpc = "iter"
    /\ Len(events) = rused
    /\ rpos <= Len(events)
    /\ needs_reminder(heap[events[rpos].obj], rnow)
    /\ LET o == events[rpos].obj
           h == [heap EXCEPT ![o].reminder_sent = TRUE]
       IN  /\ heap' = h
           /\ file' = save_events(events, h)
    /\ rpos' = rpos + 1
    /\ UNCHANGED notEvents
    /\ UNCHANGED <<events, views, pending, now, rpc, rnow, rused, rcur, nextRun, sent>>

\* send_event_reminder calls channel.send and the pass is suspended there
reminder_send ==
    /\ rpc = "iter"
    /\ Len(events) = rused
    /\ rpos <= Len(events)
    /\ needs_reminder(heap[events[rpos].obj], rnow)
    /\ LET o == events[rpos].obj
       IN  /\ rcur' = o
           /\ sent' = [sent EXCEPT ![o] = @ + 1]
    /\ rpos' = rpos + 1
    /\ rpc' = "sending"
    /\ UNCHANGED notEvents
    /\ UNCHANGED <<heap, events, views, file, pending, now, rnow, rused, nextRun>>

\* channel.send returned, or raised and the exception was logged: either way
\* check_reminders goes on with reminder_sent = True, save_events()
reminder_resume ==
    /\ rpc = "sending"
    /\ LET h == [heap EXCEPT ![rcur].reminder_sent = TRUE]
       IN  /\ heap' = h
           /\ file' = save_events(events, h)
    /\ rpc' = "iter"
    /\ UNCHANGED notEvents
    /\ UNCHANGED <<events, views, pending, now, rnow, rpos, rused, rcur, nextRun, sent>>

\* a minute passes; an idle loop starts its pass when it is due
Tick ==
    /\ LoopFree
    /\ now < MaxTime
    /\ (rpc = "idle" => now < nextRun)
    /\ now' = now + 1
    /\ UNCHANGED notEvents
    /\ UNCHANGED <<heap, events, views, file, pending, rpc, rnow, rpos, rused,
                   rcur, nextRun, sent>>


\* ------------------------------------------------------------------------
\* pomodoro.py
\* ------------------------------------------------------------------------

Cycles   == {0, 1, 2}          \* the cycles argument of a pomodoro command
JoinSets == {{1}, {1, 2}}      \* who reacted during the join phase (when someone did)

\* the state of the other cogs, which no handler of this cog touches
notPomodoro == <<evVars, scrVars, trivVars, hangVars, tttVars, rateVars, statVars>>

\* PomodoroSession.__init__ followed by the start of run(): the session is
\* suspended in the join phase (send, add_reaction, sleep(30), fetch_message).
\* pc: "join" | "work" | "break" | "done" | "cancelled" | "failed"
PomodoroSession(channel, cycles) ==
    [channel      |-> channel,
     cycles       |-> cycles,
     participants |-> {},
     stopped      |-> FALSE,
     i            |-> 0,
     pc           |-> "join"]

\* run() is still going on
Running(sess) == sess.pc \in {"join", "work", "break"}

\* pomodoro_prefix, lines 140-145: check, register and start run() with no await
\* in between; with an entry for the channel the command is refused (no change)
pomodoro_prefix(channel, cycles) ==
    /\ active_pomodoros[channel] = 0
    /\ sessions' = Append(sessions, PomodoroSession(channel, cycles))
    /\ active_pomodoros' = [active_pomodoros EXCEPT ![channel] = Len(sessions) + 1]
    /\ UNCHANGED slash
    /\ UNCHANGED notPomodoro

\* pomodoro_slash, lines 155-158: the check, then the handler is suspended in
\* interaction.response.defer()
pomodoro_slash(channel) ==
    /\ active_pomodoros[channel] = 0
    /\ slash[channel] < MaxSlash
    /\ slash' = [slash EXCEPT ![channel] = @ + 1]
    /\ UNCHANGED <<active_pomodoros, sessions>>
    /\ UNCHANGED notPomodoro

\* pomodoro_slash, lines 159-161: after defer() the session is constructed and
\* registered (replacing whatever entry the channel has by now) and run() starts
pomodoro_slash_resume(channel, cycles) ==
    /\ slash[channel] > 0
    /\ slash' = [slash EXCEPT ![channel] = @ - 1]
    /\ sessions' = Append(sessions, PomodoroSession(channel, cycles))
    /\ active_pomodoros' = [active_pomodoros EXCEPT ![channel] = Len(sessions) + 1]
    /\ UNCHANGED notPomodoro

\* defer() raised: the handler ends without a session
pomodoro_slash_failed(channel) ==
    /\ slash[channel] > 0
    /\ slash' = [slash EXCEPT ![channel] = @ - 1]
    /\ UNCHANGED <<active_pomodoros, sessions>>
    /\ UNCHANGED notPomodoro

\* run(), lines 96-98: the end of run() after the cycles
\* (send "complete" unless stopped, then _active_pomodoros.pop(channel.id, None))
run_finish(s) ==
    /\ sessions' = [sessions EXCEPT ![s].pc = "done"]
    /\ active_pomodoros' = [active_pomodoros EXCEPT ![sessions[s].channel] = 0]

\* run(), lines 82-83: nobody reacted, "No one joined ..." is sent and run() returns
run_nobody_joined(s) ==
    /\ s \in DOMAIN sessions
    /\ sessions[s].pc = "join"
    /\ sessions' = [sessions EXCEPT ![s].pc = "cancelled"]
    /\ UNCHANGED <<active_pomodoros, slash>>
    /\ UNCHANGED notPomodoro

\* run(), lines 71-91: the reactions give the participants, the start message
\* is sent and the first work phase begins (or, with cycles < 1, run() finishes)
run_joined(s, users) ==
    /\ s \in DOMAIN sessions
    /\ sessions[s].pc = "join"
    /\ users # {}
    /\ IF sessions[s].cycles >= 1
       THEN /\ sessions' = [sessions EXCEPT ![s].participants = users,
                                            ![s].i = 1, ![s].pc = "work"]
            /\ UNCHANGED active_pomodoros
       ELSE /\ sessions' = [sessions EXCEPT ![s].participants = users, ![s].pc = "done"]
            /\ active_pomodoros' = [active_pomodoros EXCEPT ![sessions[s].channel] = 0]
    /\ UNCHANGED slash
    /\ UNCHANGED notPomodoro

\* a send of the join phase or of the start message raised (lines 67, 68, 85):
\* the exception leaves run() and the command handler
run_failed(s) ==
    /\ s \in DOMAIN sessions
    /\ sessions[s].pc = "join"
    /\ sessions' = [sessions EXCEPT ![s].pc = "failed"]
    /\ UNCHANGED <<active_pomodoros, slash>>
    /\ UNCHANGED notPomodoro

\* PomodoroView.stop_button, lines 39-42 (the view is on the phase messages)
stop_button(s, user) ==
    /\ s \in DOMAIN sessions
    /\ sessions[s].pc \in {"work", "break", "done"}
    /\ user \in sessions[s].participants
    /\ sessions' = [sessions EXCEPT ![s].stopped = TRUE]
    /\ UNCHANGED <<active_pomodoros, slash>>
    /\ UNCHANGED notPomodoro

\* _phase returned from a work phase (countdown over, stopped seen, or a failed
\* edit), run() lines 92-98
work_phase_end(s) ==
    /\ s \in DOMAIN sessions
    /\ sessions[s].pc = "work"
    /\ IF sessions[s].stopped \/ sessions[s].i = sessions[s].cycles
       THEN run_finish(s)
       ELSE /\ sessions' = [sessions EXCEPT ![s].pc = "break"]
            /\ UNCHANGED active_pomodoros
    /\ UNCHANGED slash
    /\ UNCHANGED notPomodoro

\* _phase returned from a break phase, run() lines 88-91 and 96-98
break_phase_end(s) ==
    /\ s \in DOMAIN sessions
    /\ sessions[s].pc = "break"
    /\ IF sessions[s].stopped
       THEN run_finish(s)
       ELSE /\ sessions' = [sessions EXCEPT ![s].pc = "work", ![s].i = @ + 1]
            /\ UNCHANGED active_pomodoros
    /\ UNCHANGED slash
    /\ UNCHANGED notPomodoro


\* ------------------------------------------------------------------------
\* script_session.py
\* A session is [title, characters, created_by]; characters is the dict
\* name -> {description, assigned_to} in insertion order, assigned_to 0 for None.
\* The fields author, created_at and voice_channel are only displayed.
\* ------------------------------------------------------------------------

ScriptGuilds == {"1"}                       \* str(ctx.guild.id)
CharNames    == {"Romeo", "romeo"}          \* character names typed by members
NoDescription == "No description provided"
Descriptions == {NoDescription, "lead"}
Titles       == {"Custom Session", "My Play"}
TemplateNames == {"My Play"}                 \* names given to ?script template
TemplateKeys == {"romeo_and_juliet", "my_play"}  \* keys given to ?script load

\* the state of the other cogs, which no handler of this cog touches
notScript == <<evVars, pomVars, trivVars, hangVars, tttVars, rateVars, statVars>>

\* str.lower() on the names in use
Lower(name) ==
    CASE name = "Romeo"  -> "romeo"
      [] name = "romeo"  -> "romeo"
      [] name = "Juliet" -> "juliet"
      [] OTHER           -> name

\* template_name.lower().replace(" ", "_")
TemplateKey(name) ==
    CASE name = "My Play" -> "my_play"
      [] OTHER            -> name

\* PREDEFINED_PLAYS at import: of the three plays the table holds, one, cut to
\* its first two characters
InitialPlays ==
    [k \in {"romeo_and_juliet"} |->
        [title |-> "Romeo and Juliet",
         characters |-> << [name |-> "Romeo",
                            description |-> "Young man from the house of Montague."],
                           [name |-> "Juliet",
                            description |-> "Young woman from the house of Capulet."] >>]]

\* dict assignment d[k] = v and del d[k]
DictPut(d, k, v) == [x \in DOMAIN d \cup {k} |-> IF x = k THEN v ELSE d[x]]

DictDel(d, k) == [x \in DOMAIN d \ {k} |-> d[x]]

HasChar(chars, name) == \E i \in DOMAIN chars : chars[i].name = name

CharIndex(chars, name) == CHOOSE i \in DOMAIN chars : chars[i].name = name

\* session["characters"][name] = {"description": desc, "assigned_to": None}
\* (add_character 614-617, add_multiple_characters 433-436, upload_script 346-349, 371-374)
char_put(chars, name, desc) ==
    LET entry == [name |-> name, description |-> desc, assigned_to |-> 0]
    IN  IF HasChar(chars, name)
        THEN [chars EXCEPT ![CharIndex(chars, name)] = entry]
        ELSE Append(chars, entry)

\* the loop over parsed lines: one char_put per [name, description]
RECURSIVE chars_put_all(_, _)
chars_put_all(chars, items) ==
    IF items = <<>> THEN chars
    ELSE chars_put_all(char_put(chars, Head(items).name, Head(items).description),
                       Tail(items))

\* "Find character (case-insensitive)", lines 644-649 and 712-717:
\* the index of the first character whose lowered name matches, or 0
find_character(chars, character_name) ==
    IF \E i \in DOMAIN chars : Lower(chars[i].name) = Lower(character_name)
    THEN CHOOSE i \in DOMAIN chars :
            /\ Lower(chars[i].name) = Lower(character_name)
            /\ \A j \in 1..(i-1) : Lower(chars[j].name) # Lower(character_name)
    ELSE 0

\* the character lists a text or a file may hold, after line parsing
\* ("Name" gives the default description, "Name - text" gives text)
ParsedLines ==
    UNION {[1..n -> [name : CharNames, description : Descriptions]] : n \in 1..MaxLines}

\* load_template, lines 165-181: no check for an active session
load_template(author, guild, template_key) ==
    /\ template_key \in DOMAIN PREDEFINED_PLAYS
    /\ LET play == PREDEFINED_PLAYS[template_key]
           items == [i \in DOMAIN play.characters |->
                        [name |-> play.characters[i].name,
                         description |-> play.characters[i].description]]
       IN  active_sessions' = DictPut(active_sessions, guild,
               [title |-> play.title,
                characters |-> chars_put_all(<<>>, items),
                created_by |-> author])
    /\ UNCHANGED <<PREDEFINED_PLAYS, uploads>>
    /\ UNCHANGED notScript

\* start_session, lines 216-230
start_session(author, guild, title) ==
    /\ guild \notin DOMAIN active_sessions
    /\ active_sessions' = DictPut(active_sessions, guild,
           [title |-> title, characters |-> <<>>, created_by |-> author])
    /\ UNCHANGED <<PREDEFINED_PLAYS, uploads>>
    /\ UNCHANGED notScript

\* upload_script, lines 261-322: the checks, then the handler is suspended in
\* attachment.read()
upload_script(guild) ==
    /\ guild \in DOMAIN active_sessions
    /\ uploads[guild] < MaxUploads
    /\ uploads' = [uploads EXCEPT ![guild] = @ + 1]
    /\ UNCHANGED <<active_sessions, PREDEFINED_PLAYS>>
    /\ UNCHANGED notScript

\* upload_script, lines 323-375, after read(): a .json file with or without a
\* title, or a .txt file (has_title FALSE), gives its characters to the session
\* the guild has now; without a session the KeyError is caught (line 401)
upload_script_resume(guild, has_title, title, items) ==
    /\ uploads[guild] > 0
    /\ uploads' = [uploads EXCEPT ![guild] = @ - 1]
    /\ IF guild \in DOMAIN active_sessions
       THEN LET session == active_sessions[guild]
            IN  active_sessions' = [active_sessions EXCEPT ![guild] =
                    [session EXCEPT
                        !.title = IF has_title THEN title ELSE @,
                        !.characters = chars_put_all(@, items)]]
       ELSE UNCHANGED active_sessions
    /\ UNCHANGED PREDEFINED_PLAYS
    /\ UNCHANGED notScript

\* add_multiple_characters, lines 408-437
add_multiple_characters(guild, items) ==
    /\ guild \in DOMAIN active_sessions
    /\ active_sessions' = [active_sessions EXCEPT ![guild].characters =
                              chars_put_all(@, items)]
    /\ UNCHANGED <<PREDEFINED_PLAYS, uploads>>
    /\ UNCHANGED notScript

\* save_as_template, lines 550-577
save_as_template(guild, template_name) ==
    /\ guild \in DOMAIN active_sessions
    /\ active_sessions[guild].characters # <<>>
    /\ LET session == active_sessions[guild]
       IN  PREDEFINED_PLAYS' = DictPut(PREDEFINED_PLAYS, TemplateKey(template_name),
               [title |-> session.title,
                characters |-> [i \in DOMAIN session.characters |->
                                   [name |-> session.characters[i].name,
                                    description |-> session.characters[i].description]]])
    /\ UNCHANGED <<active_sessions, uploads>>
    /\ UNCHANGED notScript

\* add_character, lines 608-617
add_character(guild, character_name, description) ==
    /\ guild \in DOMAIN active_sessions
    /\ active_sessions' = [active_sessions EXCEPT ![guild].characters =
                              char_put(@, character_name, description)]
    /\ UNCHANGED <<PREDEFINED_PLAYS, uploads>>
    /\ UNCHANGED notScript

\* assign_character, lines 636-664
assign_character(guild, character_name, user) ==
    /\ guild \in DOMAIN active_sessions
    /\ LET chars == active_sessions[guild].characters
           k == find_character(chars, character_name)
       IN  /\ k # 0
           /\ chars[k].assigned_to = 0
           /\ active_sessions' = [active_sessions EXCEPT
                                     ![guild].characters[k].assigned_to = user]
    /\ UNCHANGED <<PREDEFINED_PLAYS, uploads>>
    /\ UNCHANGED notScript

\* unassign_character, lines 704-728
unassign_character(guild, character_name) ==
    /\ guild \in DOMAIN active_sessions
    /\ LET chars == active_sessions[guild].characters
           k == find_character(chars, character_name)
       IN  /\ k # 0
           /\ chars[k].assigned_to # 0
           /\ active_sessions' = [active_sessions EXCEPT
                                     ![guild].characters[k].assigned_to = 0]
    /\ UNCHANGED <<PREDEFINED_PLAYS, uploads>>
    /\ UNCHANGED notScript

\* end_session, lines 883-925
end_session(author, guild, is_admin) ==
    /\ guild \in DOMAIN active_sessions
    /\ ~(author # active_sessions[guild].created_by /\ ~is_admin)
    /\ active_sessions' = DictDel(active_sessions, guild)
    /\ UNCHANGED <<PREDEFINED_PLAYS, uploads>>
    /\ UNCHANGED notScript

\* clear_session, lines 932-951
clear_session(author, guild, is_admin) ==
    /\ guild \in DOMAIN active_sessions
    /\ ~(author # active_sessions[guild].created_by /\ ~is_admin)
    /\ active_sessions' = DictDel(active_sessions, guild)
    /\ UNCHANGED <<PREDEFINED_PLAYS, uploads>>
    /\ UNCHANGED notScript


\* ------------------------------------------------------------------------
\* fun.py: FunCog.trivia
\* ------------------------------------------------------------------------

Answers == {"paris", "4"}      \* question_data["answer"].lower() of the question drawn

\* the state of the other cogs, which no handler of this cog touches
notTrivia == <<evVars, pomVars, scrVars, hangVars, tttVars, rateVars, statVars>>

\* trivia without the test of line 446
trivia_without_check(channel, answer) ==
    /\ current_trivia' = [current_trivia EXCEPT ![channel] = answer]
    /\ handlers' = Append(handlers, [channel |-> channel, answer |-> answer,
                                     pc |-> "asking"])
    /\ UNCHANGED notTrivia

\* trivia, lines 446-466: the check, the registration, and the handler is
\* suspended in ctx.send(embed=embed) of the question.
\* pc: "asking" | "waiting" | "replying" | "done" | "ask_failed" | "reply_failed"
\*     | "refused"
trivia(channel, answer) ==
    /\ current_trivia[channel] = ""
    /\ current_trivia' = [current_trivia EXCEPT ![channel] = answer]
    /\ handlers' = Append(handlers, [channel |-> channel, answer |-> answer,
                                     pc |-> "asking"])
    /\ UNCHANGED notTrivia

\* trivia, lines 446-448: the channel has an entry; the command answers
\* "A trivia question is already active in this channel!" and returns
trivia_refused(channel) ==
    /\ current_trivia[channel] # ""
    /\ handlers' = Append(handlers, [channel |-> channel, answer |-> "",
                                     pc |-> "refused"])
    /\ UNCHANGED current_trivia
    /\ UNCHANGED notTrivia

\* line 466 returned: the handler waits in bot.wait_for('message', timeout=30)
trivia_question_sent(h) ==
    /\ h \in DOMAIN handlers
    /\ handlers[h].pc = "asking"
    /\ handlers' = [handlers EXCEPT ![h].pc = "waiting"]
    /\ UNCHANGED current_trivia
    /\ UNCHANGED notTrivia

\* line 466 raised (the send is before the try statement): the exception
\* leaves the handler
trivia_question_failed(h) ==
    /\ h \in DOMAIN handlers
    /\ handlers[h].pc = "asking"
    /\ handlers' = [handlers EXCEPT ![h].pc = "ask_failed"]
    /\ UNCHANGED current_trivia
    /\ UNCHANGED notTrivia

\* lines 475-500: a message of the channel passed check(); the verdict embed is
\* being sent
trivia_answer(h) ==
    /\ h \in DOMAIN handlers
    /\ handlers[h].pc = "waiting"
    /\ current_trivia[handlers[h].channel] # ""
    /\ handlers' = [handlers EXCEPT ![h].pc = "replying"]
    /\ UNCHANGED current_trivia
    /\ UNCHANGED notTrivia

\* lines 502-508: asyncio.TimeoutError after 30 seconds; "Time's up!" is being sent
trivia_timeout(h) ==
    /\ h \in DOMAIN handlers
    /\ handlers[h].pc = "waiting"
    /\ handlers' = [handlers EXCEPT ![h].pc = "replying"]
    /\ UNCHANGED current_trivia
    /\ UNCHANGED notTrivia

\* lines 509-510: the send inside the try statement returned; finally: del entry
trivia_reply_sent(h) ==
    /\ h \in DOMAIN handlers
    /\ handlers[h].pc = "replying"
    /\ handlers' = [handlers EXCEPT ![h].pc = "done"]
    /\ current_trivia' = [current_trivia EXCEPT ![handlers[h].channel] = ""]
    /\ UNCHANGED notTrivia

\* lines 509-510: the send inside the try statement raised; finally: del entry,
\* then the exception leaves the handler
trivia_reply_failed(h) ==
    /\ h \in DOMAIN handlers
    /\ handlers[h].pc = "replying"
    /\ handlers' = [handlers EXCEPT ![h].pc = "reply_failed"]
    /\ current_trivia' = [current_trivia EXCEPT ![handlers[h].channel] = ""]
    /\ UNCHANGED notTrivia

\* ------------------------------------------------------------------------
\* helpers/hangman_game.py: HangmanGame; fun.py: HangmanSelect, HangmanView
\* ------------------------------------------------------------------------

HangmanWords == {<<"c", "s", "s">>, <<"a", "p", "i">>}  \* "css" and "api" of WORDS_WITH_HINTS
Letters == {"a", "c", "i", "p", "s", "x", "y", "z"}     \* values of the two select menus, lowered
StartAttempts == 6                                      \* self.attempts = 6

\* the state of the other cogs, which no handler of this one touches
notHangman == <<evVars, pomVars, scrVars, trivVars, tttVars, rateVars, statVars>>

\* HangmanGame.__init__ for the word random.choice drew
HangmanGame(word) ==
    [word     |-> word,
     attempts |-> StartAttempts,
     guessed  |-> {},
     display  |-> [i \in DOMAIN word |-> "_"]]

\* guess that reveals only the first occurrence of the letter
guess_first_occurrence(game, letter) ==
    IF letter \in game.guessed
    THEN game
    ELSE IF In(letter, game.word)
         THEN [game EXCEPT !.guessed = @ \cup {letter},
                           !.display = [@ EXCEPT ![FirstIndex(letter, game.word)] = letter]]
         ELSE [game EXCEPT !.guessed = @ \cup {letter}, !.attempts = @ - 1]

\* HangmanGame.guess, lines 230-241: the game after the call
guess(game, letter) ==
    IF letter \in game.guessed
    THEN game
    ELSE IF In(letter, game.word)
         THEN [game EXCEPT !.guessed = @ \cup {letter},
                           !.display = [i \in DOMAIN game.word |->
                                           IF game.word[i] = letter THEN letter
                                                                    ELSE game.display[i]]]
         ELSE [game EXCEPT !.guessed = @ \cup {letter}, !.attempts = @ - 1]

\* HangmanGame.is_won: "_" not in self.display
is_won(game) == ~In("_", game.display)

\* HangmanGame.is_lost
is_lost(game) == game.attempts <= 0

\* the hangman command: a new game and its view (timeout=90)
\* view: "active" | "stopped" | "timed_out"
hangman(word) ==
    /\ hangmen' = Append(hangmen, [game |-> HangmanGame(word), view |-> "active"])
    /\ UNCHANGED notHangman

\* HangmanSelect.callback that leaves out view.stop()
HangmanSelect_callback_never_stops(v, letter) ==
    /\ v \in DOMAIN hangmen
    /\ hangmen[v].view = "active"
    /\ hangmen' = [hangmen EXCEPT ![v].game = guess(hangmen[v].game, letter)]
    /\ UNCHANGED notHangman

\* HangmanSelect.callback, lines 40-77, up to its only await (edit_message):
\* the guess, and view.stop() when the game is won or lost.  A selection reaches
\* the callback only while the view is neither stopped nor timed out.
HangmanSelect_callback(v, letter) ==
    /\ v \in DOMAIN hangmen
    /\ hangmen[v].view = "active"
    /\ LET g == guess(hangmen[v].game, letter)
       IN  hangmen' = [hangmen EXCEPT ![v] =
                          [game |-> g,
                           view |-> IF is_won(g) \/ is_lost(g) THEN "stopped"
                                                               ELSE "active"]]
    /\ UNCHANGED notHangman

\* HangmanView.on_timeout: 90 seconds without a selection; the view is finished
HangmanView_on_timeout(v) ==
    /\ v \in DOMAIN hangmen
    /\ hangmen[v].view = "active"
    /\ hangmen' = [hangmen EXCEPT ![v].view = "timed_out"]
    /\ UNCHANGED notHangman

\* ------------------------------------------------------------------------
\* fun.py: TicTacToe, TicTacToeButton, TicTacToeRematchButton
\* ------------------------------------------------------------------------

Positions == 0..8                 \* TicTacToeButton.position
symbols   == <<"X", "O">>         \* TicTacToe.symbols, indexed from current_player_index + 1
None      == "None"               \* an empty cell of the board
Cells     == {None, "X", "O"}

\* the state of the other cogs, which no handler of this one touches
notTicTacToe == <<evVars, pomVars, scrVars, trivVars, hangVars, rateVars, statVars>>

\* TicTacToe.check_win and highlight_winning_combination: win_combos
win_combos ==
    << <<0, 1, 2>>, <<3, 4, 5>>, <<6, 7, 8>>,
       <<0, 3, 6>>, <<1, 4, 7>>, <<2, 5, 8>>,
       <<0, 4, 8>>, <<2, 4, 6>> >>

\* check_win without the second diagonal
check_win_seven_lines(b, symbol) ==
    \E k \in 1..7 :
        /\ b[win_combos[k][1]] = b[win_combos[k][2]]
        /\ b[win_combos[k][2]] = b[win_combos[k][3]]
        /\ b[win_combos[k][3]] = symbol

\* TicTacToe.check_win, lines 253-261:
\* any(b[a] == b[b_idx] == b[c] == symbol for a, b_idx, c in win_combos)
check_win(b, symbol) ==
    \E k \in DOMAIN win_combos :
        /\ b[win_combos[k][1]] = b[win_combos[k][2]]
        /\ b[win_combos[k][2]] = b[win_combos[k][3]]
        /\ b[win_combos[k][3]] = symbol

\* TicTacToe.__init__, lines 183-197; is_empty holds the flag of each button.
\* store: "active" | "timed_out" (the view is dispatched to only while active);
\* rematch counts the rematch buttons added
TicTacToe(player1, player2) ==
    [players              |-> <<player1, player2>>,
     current_player_index |-> 0,
     current_player       |-> player1,
     board                |-> [i \in Positions |-> None],
     is_empty             |-> [i \in Positions |-> TRUE],
     move_count           |-> 0,
     game_over            |-> FALSE,
     winner               |-> 0,
     rematch              |-> 0,
     store                |-> "active",
     generation           |-> 0]

\* the tictactoe command, lines 369-398, for an opponent that is accepted
tictactoe(author, opponent) ==
    /\ opponent # author
    /\ tictactoes' = Append(tictactoes, TicTacToe(author, opponent))
    /\ UNCHANGED <<win_checked>>
    /\ UNCHANGED notTicTacToe

\* handle_game_end, lines 263-282, up to its await
handle_game_end(view, result) ==
    [view EXCEPT !.game_over = TRUE,
                 !.winner = IF result = "win" THEN view.current_player ELSE @,
                 !.rematch = @ + 1]

\* callback without the test of the cell: "if not self.is_empty" left out
callback_without_cell_test(view, position, user) ==
    IF user # view.current_player THEN view
    ELSE LET current_symbol == symbols[view.current_player_index + 1]
             moved == [view EXCEPT !.is_empty[position] = FALSE,
                                   !.board[position] = current_symbol,
                                   !.move_count = @ + 1]
         IN  IF check_win(moved.board, current_symbol)
             THEN handle_game_end(moved, "win")
             ELSE IF moved.move_count >= 9
             THEN handle_game_end(moved, "draw")
             ELSE [moved EXCEPT !.current_player_index = 1 - @,
                                !.current_player =
                                    view.players[(1 - view.current_player_index) + 1]]

\* callback without the switch to the next player after a move
callback_keeps_player(view, position, user) ==
    IF user # view.current_player THEN view
    ELSE IF ~view.is_empty[position] THEN view
    ELSE LET current_symbol == symbols[view.current_player_index + 1]
             moved == [view EXCEPT !.is_empty[position] = FALSE,
                                   !.board[position] = current_symbol,
                                   !.move_count = @ + 1]
         IN  IF check_win(moved.board, current_symbol)
             THEN handle_game_end(moved, "win")
             ELSE IF moved.move_count >= 9
             THEN handle_game_end(moved, "draw")
             ELSE moved

\* TicTacToeButton.callback, lines 112-150: the view after the press
callback(view, position, user) ==
    IF user # view.current_player THEN view
    ELSE IF ~view.is_empty[position] THEN view
    ELSE LET current_symbol == symbols[view.current_player_index + 1]
             moved == [view EXCEPT !.is_empty[position] = FALSE,
                                   !.board[position] = current_symbol,
                                   !.move_count = @ + 1]
         IN  IF check_win(moved.board, current_symbol)
             THEN handle_game_end(moved, "win")
             ELSE IF moved.move_count >= 9
             THEN handle_game_end(moved, "draw")
             ELSE [moved EXCEPT !.current_player_index = 1 - @,
                                !.current_player =
                                    view.players[(1 - view.current_player_index) + 1]]

\* a press on a board button reaches TicTacToeButton.callback (the view is
\* neither timed out nor replaced on its message)
TicTacToeButton_callback(v, position, user) ==
    /\ v \in DOMAIN tictactoes
    /\ tictactoes[v].store = "active"
    /\ tictactoes' = [tictactoes EXCEPT ![v] = callback(tictactoes[v], position, user)]
    /\ UNCHANGED <<win_checked>>
    /\ UNCHANGED notTicTacToe

\* TicTacToeRematchButton.callback, lines 162-178: a player presses a rematch
\* button; a new view takes the place of the old one on the message, and the
\* old one is reached by no press any more.  generation tells the views of one
\* message apart.
TicTacToeRematchButton_callback(v, user) ==
    /\ v \in DOMAIN tictactoes
    /\ tictactoes[v].store = "active"
    /\ tictactoes[v].rematch > 0
    /\ In(user, tictactoes[v].players)
    /\ tictactoes' = [tictactoes EXCEPT ![v] =
           [TicTacToe(tictactoes[v].players[1], tictactoes[v].players[2])
               EXCEPT !.generation = tictactoes[v].generation + 1]]
    /\ UNCHANGED <<win_checked>>
    /\ UNCHANGED notTicTacToe

\* TicTacToe.on_timeout, lines 310-328: 5 minutes without a press
TicTacToe_on_timeout(v) ==
    /\ v \in DOMAIN tictactoes
    /\ tictactoes[v].store = "active"
    /\ tictactoes' = [tictactoes EXCEPT ![v].game_over = TRUE, ![v].store = "timed_out"]
    /\ UNCHANGED <<win_checked>>
    /\ UNCHANGED notTicTacToe

\* check_win called on the board of a view for a symbol; the result is recorded
check_win_call(v, symbol) ==
    /\ v \in DOMAIN tictactoes
    /\ win_checked' = [view |-> v, symbol |-> symbol,
                       result |-> check_win(tictactoes[v].board, symbol)]
    /\ UNCHANGED tictactoes
    /\ UNCHANGED notTicTacToe

\* ------------------------------------------------------------------------
\* helpers/checks.py: is_rate_limited
\* ------------------------------------------------------------------------

RATE_LIMIT  == 5
TIME_WINDOW == 120                       \* seconds
CallTimes   == {0, 119, 120}            \* values time.time() takes at the calls

\* the state of the other cogs, which this function does not touch
notRate == <<evVars, pomVars, scrVars, trivVars, hangVars, tttVars, statVars>>

\* "Remove timestamps outside time window", lines 22-25
recent(timestamps, current_time) ==
    LET InWindow(timestamp) == current_time - timestamp < TIME_WINDOW
    IN  SelectSeq(timestamps, InWindow)

\* the test of line 28 with the limit raised by one
limit_exceeded_late(timestamps) == Len(timestamps) >= RATE_LIMIT + 1

\* "Check if user exceeded rate limit", line 28
limit_exceeded(timestamps) == Len(timestamps) >= RATE_LIMIT

\* is_rate_limited, lines 17-34 (no await inside); rate_result keeps what the
\* call returned
is_rate_limited(user_id) ==
    LET current_time == clock
        kept == recent(user_command_timestamps[user_id], current_time)
    IN  IF limit_exceeded(kept)
        THEN /\ user_command_timestamps' =
                    [user_command_timestamps EXCEPT ![user_id] = kept]
             /\ rate_result' = [rate_result EXCEPT ![user_id] = "True"]
             /\ UNCHANGED <<clock, allowed>>
             /\ UNCHANGED notRate
        ELSE /\ user_command_timestamps' =
                    [user_command_timestamps EXCEPT ![user_id] = Append(kept, current_time)]
             /\ rate_result' = [rate_result EXCEPT ![user_id] = "False"]
             /\ allowed' = [allowed EXCEPT ![user_id] = Append(@, current_time)]
             /\ UNCHANGED clock
             /\ UNCHANGED notRate

\* time passes between two calls
clock_advance(t) ==
    /\ t > clock
    /\ clock' = t
    /\ UNCHANGED <<user_command_timestamps, allowed, rate_result>>
    /\ UNCHANGED notRate

\* ------------------------------------------------------------------------
\* database/models.py: get_game_stats, update_game_stats
\* ------------------------------------------------------------------------

\* (user_id, guild_id, game_type)
StatKeys == {<<"1", "1", "tictactoe">>, <<"2", "1", "tictactoe">>}

\* the state of the other cogs, which these functions do not touch
notStats == <<evVars, pomVars, scrVars, trivVars, hangVars, tttVars, rateVars>>

\* the rows SELECT ... WHERE user_id = ? AND guild_id = ? AND game_type = ? finds
matching(table, key) == {i \in DOMAIN table : table[i].key = key}

\* get_game_stats, lines 158-181: cursor.fetchone() gives the first row the
\* table scan meets (the one of lowest rowid), or the zero record
get_game_stats(table, key) ==
    IF matching(table, key) = {}
    THEN [wins |-> 0, losses |-> 0, total_games |-> 0]
    ELSE LET i == CHOOSE i \in matching(table, key) :
                      \A j \in matching(table, key) : i <= j
         IN  [wins |-> table[i].wins, losses |-> table[i].losses,
              total_games |-> table[i].total_games]

\* update_game_stats, lines 183-217, when it returns True.  Table game_stats
\* has no PRIMARY KEY and no UNIQUE column (db.py 60-72), so INSERT OR REPLACE
\* finds no row to replace and inserts one.
update_game_stats(key, won) ==
    /\ LET stats == get_game_stats(game_stats, key)
       IN  game_stats' = Append(game_stats,
               [key         |-> key,
                wins        |-> IF won THEN stats.wins + 1 ELSE stats.wins,
                losses      |-> IF won THEN stats.losses ELSE stats.losses + 1,
                total_games |-> stats.total_games + 1])
    /\ updates' = [updates EXCEPT ![key] = Append(@, won)]
    /\ UNCHANGED notStats

\* ------------------------------------------------------------------------
\* Initial state and specifications
\* ------------------------------------------------------------------------

InitEvents ==
    /\ heap = <<>>
    /\ events = <<>>
    /\ views = <<>>
    /\ file = <<>>
    /\ pending = 0
    /\ now = 0
    /\ rpc = "idle"
    /\ rnow = 0
    /\ rpos = 1
    /\ rused = 0
    /\ rcur = 0
    /\ nextRun = 0
    /\ sent = <<>>

InitPomodoro ==
    /\ active_pomodoros = [c \in Channels |-> 0]
    /\ sessions = <<>>
    /\ slash = [c \in Channels |-> 0]

InitScript ==
    /\ active_sessions = [g \in {} |-> 0]
    /\ PREDEFINED_PLAYS = InitialPlays
    /\ uploads = [g \in ScriptGuilds |-> 0]

InitTrivia ==
    /\ current_trivia = [c \in Channels |-> ""]
    /\ handlers = <<>>

InitHangman == hangmen = <<>>

NoCheck == [view |-> 0, symbol |-> None, result |-> FALSE]

InitTicTacToe ==
    /\ tictactoes = <<>>
    /\ win_checked = NoCheck

InitRate ==
    /\ user_command_timestamps = [u \in Users |-> <<>>]
    /\ clock = 0
    /\ allowed = [u \in Users |-> <<>>]
    /\ rate_result = [u \in Users |-> "none"]

InitStats ==
    /\ game_stats = <<>>
    /\ updates = [k \in StatKeys |-> <<>>]

Init ==
    /\ InitEvents /\ InitPomodoro /\ InitScript /\ InitTrivia
    /\ InitHangman /\ InitTicTacToe /\ InitRate /\ InitStats

\* RSVP: events are created, viewed and answered
NextRsvp ==
    \/ \E u \in Users, id \in EventIds :
          Len(heap) < RsvpEvents /\ create_event(u, 1, id, 8)
    \/ \E g \in Guilds, id \in EventIds : event_info(g, id)
    \/ \E o \in DOMAIN heap, u \in Users : attending_button(o, u)
    \/ \E o \in DOMAIN heap, u \in Users : maybe_button(o, u)
    \/ \E o \in DOMAIN heap, u \in Users : not_attending_button(o, u)
    \/ button_resume

SpecRsvp == Init /\ [][NextRsvp]_vars

\* Creation and cancellation by any member of any guild
NextCancel ==
    \/ \E u \in Users, g \in Guilds, id \in EventIds :
          Len(heap) < MaxEvents /\ create_event(u, g, id, 8)
    \/ \E u \in Users, g \in Guilds, id \in EventIds, adm \in BOOLEAN :
          cancel_event(u, g, id, adm)

SpecCancel == Init /\ [][NextCancel]_vars

\* Reminders: events are created and cancelled while the clock and the loop run
NextReminders ==
    \/ \E id \in EventIds, st \in Starts :
          Len(heap) < MaxEvents /\ create_event(1, 1, id, st)
    \/ \E u \in Users, g \in Guilds, id \in EventIds, adm \in BOOLEAN :
          cancel_event(u, g, id, adm)
    \/ reminder_start
    \/ reminder_raise
    \/ reminder_end
    \/ reminder_skip
    \/ reminder_no_channel
    \/ reminder_send
    \/ reminder_resume
    \/ Tick

SpecReminders == Init /\ [][NextReminders]_vars

\* ------------------------------------------------------------------------
\* Claims about the events cog
\* ------------------------------------------------------------------------

\* C1: in every reachable state of every event, no user id is in more than one
\* of participants, maybe_participants and not_attending, and no list holds a
\* user id twice (the occurrences of a user over the three lists are at most one).
C1_RsvpDisjoint ==
    \A o \in DOMAIN heap : \A u \in Users :
        Count(u, heap[o].participants) + Count(u, heap[o].maybe_participants)
            + Count(u, heap[o].not_attending) <= 1

\* C1 witness: an event held by two EventView instances on which user 1 moved
\* from Attending (as last saved) to Maybe while user 2 declined.
C1_Witness ==
    \E o \in DOMAIN heap :
        /\ views[o] >= 2
        /\ heap[o].maybe_participants = <<1>>
        /\ heap[o].not_attending = <<2>>
        /\ \E i \in DOMAIN file : file[i].data.participants = <<1>>

\* the lists of an event that hold the user
ListsOf(e, u) ==
    {n \in {"participants", "maybe_participants", "not_attending"} :
        In(u, CASE n = "participants"       -> e.participants
                [] n = "maybe_participants" -> e.maybe_participants
                [] OTHER                    -> e.not_attending)}

\* the effect claimed for a press of the button of list n by user u on event o
C21_PressEffect(o, u, n) ==
    /\ ListsOf(heap'[o], u) = {n}
    /\ \A w \in Users \ {u} : ListsOf(heap'[o], w) = ListsOf(heap[o], w)
    /\ ListsOf(heap[o], u) = {n} => heap'[o] = heap[o]
    /\ \A q \in DOMAIN heap \ {o} : heap'[q] = heap[q]

\* C21: after a press of an RSVP button the user is in exactly the list of that
\* button and the memberships of every other user are unchanged; a press of the
\* button of the list the user is already in changes none of the three lists.
\* (A press is the step that suspends one more handler at send_message, with
\* the heap the handler of that button and user leaves.)
C21_PressMovesOnlyThePresser ==
    [][ pending' = pending + 1 =>
          \A o \in DOMAIN heap : \A u \in Users :
            /\ heap' = [heap EXCEPT ![o] = attending_lists(heap[o], u)]
                  => C21_PressEffect(o, u, "participants")
            /\ heap' = [heap EXCEPT ![o] = maybe_lists(heap[o], u)]
                  => C21_PressEffect(o, u, "maybe_participants")
            /\ heap' = [heap EXCEPT ![o] = not_attending_lists(heap[o], u)]
                  => C21_PressEffect(o, u, "not_attending")
      ]_vars

\* user 1 is in Maybe and user 2 in Not attending after their presses, and both
\* answers are saved
C21_Witness ==
    \E o \in DOMAIN heap :
        /\ heap[o].maybe_participants = <<1>>
        /\ heap[o].not_attending = <<2>>
        /\ heap[o].participants = <<>>
        /\ pending = 0
        /\ \E i \in DOMAIN file : file[i].data.not_attending = <<2>>

\* C6 (as claimed): every create_event stores the new event under an id no
\* stored event has: the number of stored events grows by exactly one and no
\* existing entry of self.events is replaced.
C6_CreateNeverReplaces ==
    [][Len(heap') > Len(heap) =>
          /\ Len(events') = Len(events) + 1
          /\ \A i \in DOMAIN events : events'[i] = events[i]]_vars

\* C7 (as claimed): an event that is not cancelled has had its reminder sent
\* to its channel by the time it starts.
C7_ReminderBeforeStart ==
    \A o \in DOMAIN heap :
        (~heap[o].is_cancelled /\ now >= heap[o].start_time) => sent[o] >= 1

\* C8: a reminder is sent for an event at most once, and only in a pass of
\* check_reminders in which the event is not cancelled, starts after the
\* pass's `now` and at most 1800 seconds after it; in particular never once the
\* event is cancelled.
C8_ReminderOnceWhenDue ==
    [][\A o \in DOMAIN heap :
          sent'[o] # sent[o] =>
              /\ sent[o] = 0
              /\ sent'[o] = 1
              /\ ~heap[o].is_cancelled
              /\ heap[o].start_time > rnow
              /\ (heap[o].start_time - rnow) * 60 <= 1800
              /\ rnow <= now]_vars

\* C8 witness: an event was reminded once, was cancelled afterwards, and a
\* later pass of check_reminders has run over it.
C8_Witness ==
    \E o \in DOMAIN heap :
        /\ sent[o] = 1
        /\ heap[o].reminder_sent
        /\ heap[o].is_cancelled
        /\ rpc = "idle"
        /\ rnow >= 5
        /\ events_get(events, heap[o].event_id) = o

\* the caller of cancel_event may cancel the stored event with this id
C9_MayCancel(author, guild, event_id, is_admin) ==
    /\ \E i \in DOMAIN events : events[i].key = event_id
    /\ \A i \in DOMAIN events :
          events[i].key = event_id =>
              /\ heap[events[i].obj].guild_id = guild
              /\ (heap[events[i].obj].creator_id = author \/ is_admin)
              /\ ~heap[events[i].obj].is_cancelled

\* C9: is_cancelled becomes true only by a cancel_event on an existing event of
\* the caller's guild by its creator or an administrator; a cancel_event in any
\* other case changes no event; a cancelled event is never un-cancelled.
C9_CancelGuarded ==
    [][/\ \A o \in DOMAIN heap : heap[o].is_cancelled => heap'[o].is_cancelled
       /\ \A u \in Users, g \in Guilds, id \in EventIds, adm \in BOOLEAN :
             cancel_event(u, g, id, adm) =>
                 /\ C9_MayCancel(u, g, id, adm)
                 /\ \A o \in DOMAIN heap :
                       heap'[o] # heap[o] =>
                           /\ heap[o].event_id = id
                           /\ heap'[o] = [heap[o] EXCEPT !.is_cancelled = TRUE]
       /\ (\E o \in DOMAIN heap : heap'[o].is_cancelled # heap[o].is_cancelled) =>
             \E u \in Users, g \in Guilds, id \in EventIds, adm \in BOOLEAN :
                 C9_MayCancel(u, g, id, adm) /\ cancel_event(u, g, id, adm)]_vars

\* C9 witness: one event was cancelled by a member who is not its creator (an
\* administrator), next to a stored event of another guild that is not cancelled.
C9_Witness ==
    \E o1, o2 \in DOMAIN heap :
        /\ heap[o1].is_cancelled
        /\ ~heap[o2].is_cancelled
        /\ heap[o1].guild_id # heap[o2].guild_id
        /\ events_get(events, heap[o1].event_id) = o1
        /\ events_get(events, heap[o2].event_id) = o2
        /\ \E i \in DOMAIN file : file[i].data.is_cancelled

\* Persistence: the commands and button presses of members that write the
\* events, with RSVP handlers whose send_message fails
NextPersist ==
    \/ \E u \in Users, id \in EventIds :
            Len(heap) < RsvpEvents /\ create_event(u, 1, id, 8)
    \/ \E id \in EventIds : event_info(1, id)
    \/ \E o \in DOMAIN heap, u \in Users : attending_button(o, u)
    \/ \E o \in DOMAIN heap, u \in Users : maybe_button(o, u)
    \/ \E o \in DOMAIN heap, u \in Users : not_attending_button(o, u)
    \/ button_resume
    \/ button_failed
    \/ \E u \in Users, id \in EventIds, adm \in BOOLEAN : cancel_event(u, 1, id, adm)

SpecPersist == Init /\ [][NextPersist]_vars

\* C16 (as claimed): when no RSVP handler is suspended, the events file holds
\* exactly the in-memory events: load_events gives, key by key, events equal to
\* the stored ones in RSVP lists, cancelled flag and reminder_sent flag.
C16_FileMatchesMemory ==
    pending = 0 =>
        /\ Len(file) = Len(events)
        /\ \A i \in DOMAIN events :
              /\ i \in DOMAIN file
              /\ load_events(file)[i].key = events[i].key
              /\ load_events(file)[i].event = heap[events[i].obj]

\* ------------------------------------------------------------------------
\* Pomodoro: specification and claims
\* ------------------------------------------------------------------------

NextPomodoro ==
    \/ \E c \in Channels, n \in Cycles :
          Len(sessions) < MaxSessions /\ pomodoro_prefix(c, n)
    \/ \E c \in Channels : pomodoro_slash(c)
    \/ \E c \in Channels, n \in Cycles :
          Len(sessions) < MaxSessions /\ pomodoro_slash_resume(c, n)
    \/ \E c \in Channels : pomodoro_slash_failed(c)
    \/ \E s \in DOMAIN sessions : run_nobody_joined(s)
    \/ \E s \in DOMAIN sessions, us \in JoinSets : run_joined(s, us)
    \/ \E s \in DOMAIN sessions : run_failed(s)
    \/ \E s \in DOMAIN sessions, u \in Users : stop_button(s, u)
    \/ \E s \in DOMAIN sessions : work_phase_end(s)
    \/ \E s \in DOMAIN sessions : break_phase_end(s)

SpecPomodoro == Init /\ [][NextPomodoro]_vars

\* C2 (as claimed): once every run() started for a channel has ended (all
\* cycles done, stopped, or cancelled because nobody joined) and no command is
\* under way, the channel has no entry in _active_pomodoros.
C2_EntryRemovedAtEnd ==
    \A c \in Channels :
        ( /\ slash[c] = 0
          /\ \E s \in DOMAIN sessions : sessions[s].channel = c
          /\ \A s \in DOMAIN sessions :
                sessions[s].channel = c => sessions[s].pc \in {"done", "cancelled"} )
        => active_pomodoros[c] = 0

\* C3 (as claimed): at most one PomodoroSession is running for a channel.
C3_OneSessionPerChannel ==
    \A c \in Channels :
        Cardinality({s \in DOMAIN sessions :
                        sessions[s].channel = c /\ Running(sessions[s])}) <= 1

\* ------------------------------------------------------------------------
\* Script sessions: specification and claims
\* ------------------------------------------------------------------------

NextScript ==
    \/ \E u \in Users, g \in ScriptGuilds, k \in TemplateKeys : load_template(u, g, k)
    \/ \E u \in Users, g \in ScriptGuilds, t \in Titles : start_session(u, g, t)
    \/ \E g \in ScriptGuilds : upload_script(g)
    \/ \E g \in ScriptGuilds, ht \in BOOLEAN, items \in ParsedLines :
          upload_script_resume(g, ht, "My Play", items)
    \/ \E g \in ScriptGuilds, items \in ParsedLines :
          add_multiple_characters(g, items)
    \/ \E g \in ScriptGuilds, n \in TemplateNames : save_as_template(g, n)
    \/ \E g \in ScriptGuilds, n \in CharNames, d \in Descriptions :
          add_character(g, n, d)
    \/ \E g \in ScriptGuilds, n \in CharNames \cup {"Juliet"}, m \in Users :
          assign_character(g, n, m)
    \/ \E g \in ScriptGuilds, n \in CharNames \cup {"Juliet"} :
          unassign_character(g, n)
    \/ \E u \in Users, g \in ScriptGuilds, adm \in BOOLEAN : end_session(u, g, adm)
    \/ \E u \in Users, g \in ScriptGuilds, adm \in BOOLEAN : clear_session(u, g, adm)

SpecScript == Init /\ [][NextScript]_vars

\* the session of guild g is still the one it was: present, with its title,
\* its creator and every character it had
C4_Unreplaced(g) ==
    /\ g \in DOMAIN active_sessions'
    /\ active_sessions'[g].title = active_sessions[g].title
    /\ active_sessions'[g].created_by = active_sessions[g].created_by
    /\ \A i \in DOMAIN active_sessions[g].characters :
          HasChar(active_sessions'[g].characters, active_sessions[g].characters[i].name)

\* C4 (as claimed): a session leaves active_sessions only by an end or clear of
\* its creator or an administrator, and start, load, addchar, addmultiple,
\* upload, assign, unassign and template run by another member who is no
\* administrator leave the session in place with its title, characters and
\* created_by.
C4_OnlyEndOrClearReplaces ==
    [][\A g \in DOMAIN active_sessions :
          /\ g \notin DOMAIN active_sessions' =>
                \E u \in Users, adm \in BOOLEAN :
                    /\ (u = active_sessions[g].created_by \/ adm)
                    /\ (end_session(u, g, adm) \/ clear_session(u, g, adm))
          /\ \A u \in Users \ {active_sessions[g].created_by} :
                ( \/ \E t \in Titles : start_session(u, g, t)
                  \/ \E k \in DOMAIN PREDEFINED_PLAYS : load_template(u, g, k)
                  \/ \E n \in CharNames, d \in Descriptions : add_character(g, n, d)
                  \/ \E items \in ParsedLines : add_multiple_characters(g, items)
                  \/ \E ht \in BOOLEAN, items \in ParsedLines :
                        upload_script_resume(g, ht, "My Play", items)
                  \/ \E n \in CharNames \cup {"Juliet"}, m \in Users :
                        assign_character(g, n, m)
                  \/ \E n \in CharNames \cup {"Juliet"} : unassign_character(g, n)
                  \/ \E n \in TemplateNames : save_as_template(g, n) )
                => C4_Unreplaced(g)]_vars

\* C5 (as claimed): addchar, addmultiple, upload and template leave the
\* assigned_to of every character the session has unchanged.
C5_OnlyAssignChangesAssignments ==
    [][\A g \in DOMAIN active_sessions :
          ( \/ \E n \in CharNames, d \in Descriptions : add_character(g, n, d)
            \/ \E items \in ParsedLines : add_multiple_characters(g, items)
            \/ \E ht \in BOOLEAN, items \in ParsedLines :
                  upload_script_resume(g, ht, "My Play", items)
            \/ \E n \in TemplateNames : save_as_template(g, n) )
          => /\ g \in DOMAIN active_sessions'
             /\ \A i \in DOMAIN active_sessions[g].characters :
                   LET c == active_sessions[g].characters[i]
                       cs == active_sessions'[g].characters
                   IN  /\ HasChar(cs, c.name)
                       /\ cs[CharIndex(cs, c.name)].assigned_to = c.assigned_to]_vars

\* ------------------------------------------------------------------------
\* Trivia: specification and claims
\* ------------------------------------------------------------------------

NextTrivia ==
    \/ \E c \in Channels, a \in Answers : Len(handlers) < MaxTrivia /\ trivia(c, a)
    \/ \E c \in Channels : Len(handlers) < MaxTrivia /\ trivia_refused(c)
    \/ \E h \in DOMAIN handlers : trivia_question_sent(h)
    \/ \E h \in DOMAIN handlers : trivia_question_failed(h)
    \/ \E h \in DOMAIN handlers : trivia_answer(h)
    \/ \E h \in DOMAIN handlers : trivia_timeout(h)
    \/ \E h \in DOMAIN handlers : trivia_reply_sent(h)
    \/ \E h \in DOMAIN handlers : trivia_reply_failed(h)

SpecTrivia == Init /\ [][NextTrivia]_vars

\* C10 (as claimed): once every trivia handler that registered a question for
\* a channel has finished (answer, timeout, or a failed send), the channel has
\* no entry in current_trivia.
C10_EntryRemovedAtEnd ==
    \A c \in Channels :
        ( /\ \E h \in DOMAIN handlers :
                handlers[h].channel = c /\ handlers[h].pc # "refused"
          /\ \A h \in DOMAIN handlers :
                handlers[h].channel = c =>
                    handlers[h].pc \in {"done", "ask_failed", "reply_failed", "refused"} )
        => current_trivia[c] = ""

\* the handlers of a channel that registered a question and have not finished
LiveTrivia(c) ==
    {h \in DOMAIN handlers :
        handlers[h].channel = c /\ handlers[h].pc \in {"asking", "waiting", "replying"}}

\* C11: at most one trivia question is active per channel.  In every step, a
\* channel has at most one unfinished trivia handler, whose answer is the
\* channel's entry; a trivia command for a channel that has an entry leaves
\* current_trivia as it is and starts no question; and the entry of a channel
\* changes only in a step of a handler of that channel.
C11_OneQuestionPerChannel ==
    [][ \A c \in Channels :
          /\ Cardinality(LiveTrivia(c)') <= 1
          /\ \A h \in LiveTrivia(c)' : current_trivia'[c] = handlers'[h].answer
          /\ current_trivia[c] # "" =>
                \A a \in Answers :
                    (trivia(c, a) \/ trivia_refused(c)) =>
                        /\ current_trivia' = current_trivia
                        /\ LiveTrivia(c)' = LiveTrivia(c)
          /\ current_trivia'[c] # current_trivia[c] =>
                \E h \in DOMAIN handlers' :
                    /\ handlers'[h].channel = c
                    /\ h \in DOMAIN handlers => handlers'[h] # handlers[h]
      ]_vars

\* a command was refused in a channel whose question is still open, while the
\* other channel has a question of its own
C11_Witness ==
    \E h1, h2, h3 \in DOMAIN handlers :
        /\ handlers[h1].pc = "waiting" /\ handlers[h2].pc = "refused"
        /\ handlers[h1].channel = handlers[h2].channel /\ h1 < h2
        /\ handlers[h3].pc = "waiting" /\ handlers[h3].channel # handlers[h1].channel
        /\ current_trivia[handlers[h1].channel] = handlers[h1].answer
        /\ current_trivia[handlers[h3].channel] = handlers[h3].answer

\* ------------------------------------------------------------------------
\* Hangman: specification and claims
\* ------------------------------------------------------------------------

NextHangman ==
    \/ \E w \in HangmanWords : Len(hangmen) < MaxHangman /\ hangman(w)
    \/ \E v \in DOMAIN hangmen, l \in Letters : HangmanSelect_callback(v, l)
    \/ \E v \in DOMAIN hangmen : HangmanView_on_timeout(v)

SpecHangman == Init /\ [][NextHangman]_vars

\* C12: after any sequence of guesses, every position of the display shows the
\* letter of the word when that letter is in the guessed set, and "_" otherwise.
C12_DisplayMatchesGuessed ==
    \A v \in DOMAIN hangmen :
        LET g == hangmen[v].game
        IN  /\ DOMAIN g.display = DOMAIN g.word
            /\ \A i \in DOMAIN g.word :
                    g.display[i] = IF g.word[i] \in g.guessed THEN g.word[i] ELSE "_"

\* one guess of "s" revealed both occurrences in "css"
C12_Witness ==
    \E v \in DOMAIN hangmen :
        /\ hangmen[v].game.word = <<"c", "s", "s">>
        /\ hangmen[v].game.guessed = {"s"}
        /\ hangmen[v].game.display = <<"_", "s", "s">>

\* C15: once a hangman game is won, lost or timed out, no step changes its
\* display, guessed set or attempts, and no game is both won and lost.
C15_NoGuessAfterEnd ==
    [][ \A v \in DOMAIN hangmen :
          /\ ( \/ is_won(hangmen[v].game)
               \/ is_lost(hangmen[v].game)
               \/ hangmen[v].view = "timed_out" )
             => hangmen'[v].game = hangmen[v].game
          /\ ~(is_won(hangmen'[v].game) /\ is_lost(hangmen'[v].game))
      ]_vars

\* a game was lost and its view stopped while letters were still unguessed, so
\* that further selections were possible
C15_Witness ==
    \E v \in DOMAIN hangmen :
        /\ hangmen[v].view = "stopped"
        /\ is_lost(hangmen[v].game)
        /\ hangmen[v].game.guessed # {}
        /\ Cardinality(hangmen[v].game.guessed) < Cardinality(Letters)
\* ------------------------------------------------------------------------
\* Tic-tac-toe: specifications and claims
\* ------------------------------------------------------------------------

NextTicTacToe ==
    \/ \E a \in Users, o \in Users : Len(tictactoes) < MaxTicTacToe /\ tictactoe(a, o)
    \/ \E v \in DOMAIN tictactoes, p \in Positions, u \in Users :
            TicTacToeButton_callback(v, p, u)
    \/ \E v \in DOMAIN tictactoes, u \in Users :
            tictactoes[v].generation < MaxRematch /\ TicTacToeRematchButton_callback(v, u)
    \/ \E v \in DOMAIN tictactoes : TicTacToe_on_timeout(v)

SpecTicTacToe == Init /\ [][NextTicTacToe]_vars

\* check_win as a function of the board: a view on every board content
InitCheckWin ==
    /\ InitEvents /\ InitPomodoro /\ InitScript /\ InitTrivia
    /\ InitHangman /\ InitRate /\ InitStats
    /\ \E b \in [Positions -> Cells] :
            tictactoes = << [TicTacToe(1, 2) EXCEPT !.board = b] >>
    /\ win_checked = NoCheck

NextCheckWin == \E v \in DOMAIN tictactoes, s \in {"X", "O"} : check_win_call(v, s)

SpecCheckWin == InitCheckWin /\ [][NextCheckWin]_vars

\* the eight lines of the board: three rows, three columns, two diagonals
EightLines ==
    {{3 * r, 3 * r + 1, 3 * r + 2} : r \in 0..2} \cup
    {{col, col + 3, col + 6} : col \in 0..2} \cup
    {{0, 4, 8}, {2, 4, 6}}

\* C13: for every board content and each symbol, check_win(symbol) is true
\* exactly when the symbol fills all three cells of one of the eight lines.
C13_CheckWinIsEightLines ==
    win_checked.view # 0 =>
        ( win_checked.result <=>
            \E line \in EightLines :
                \A i \in line : tictactoes[win_checked.view].board[i] = win_checked.symbol )

\* check_win("O") answered true on a board whose only full line is the second
\* diagonal
C13_Witness ==
    /\ win_checked.view # 0
    /\ win_checked.symbol = "O"
    /\ win_checked.result
    /\ LET b == tictactoes[win_checked.view].board
       IN  \A line \in EightLines :
               (\A i \in line : b[i] = "O") <=> line = {2, 4, 6}

\* C14 (as claimed): once a game is over, no step changes its board, move
\* count, current player or winner.
C14_NoMoveAfterEnd ==
    [][ \A v \in DOMAIN tictactoes :
          (tictactoes[v].game_over /\ tictactoes'[v].generation = tictactoes[v].generation) =>
              /\ tictactoes'[v].board = tictactoes[v].board
              /\ tictactoes'[v].move_count = tictactoes[v].move_count
              /\ tictactoes'[v].current_player = tictactoes[v].current_player
              /\ tictactoes'[v].current_player_index = tictactoes[v].current_player_index
              /\ tictactoes'[v].winner = tictactoes[v].winner
      ]_vars
\* the symbol a player of a view plays: the first player X, the second O
SymbolOf(view, user) == IF user = view.players[1] THEN "X" ELSE "O"

\* C22: a press on a board button by anyone other than the current player, or
\* on an occupied cell, leaves the board, the move count, the current player
\* and the game-over state unchanged; an accepted press writes the symbol of
\* the current player into the pressed, empty cell and into no other; and no
\* step of a game overwrites an occupied cell.
C22_RejectedPressChangesNothing ==
    [][ /\ \A v \in DOMAIN tictactoes : \A p \in Positions : \A u \in Users :
              TicTacToeButton_callback(v, p, u) =>
                  LET old == tictactoes[v]
                      new == tictactoes'[v]
                  IN  IF u # old.current_player \/ old.board[p] # None
                      THEN /\ new.board = old.board
                           /\ new.move_count = old.move_count
                           /\ new.current_player = old.current_player
                           /\ new.current_player_index = old.current_player_index
                           /\ new.game_over = old.game_over
                      ELSE /\ new.board = [old.board EXCEPT ![p] = SymbolOf(old, u)]
                           /\ new.move_count = old.move_count + 1
        /\ \A v \in DOMAIN tictactoes :
              tictactoes'[v].generation = tictactoes[v].generation =>
                  \A q \in Positions :
                      tictactoes[v].board[q] # None =>
                          tictactoes'[v].board[q] = tictactoes[v].board[q]
      ]_vars

\* a game in progress after three accepted moves (X on 4, O on 0, X on 8): the
\* turn is the second player's, so a press of the first player and a press on
\* cells 0, 4 and 8 are the rejected ones
C22_Witness ==
    \E v \in DOMAIN tictactoes :
        /\ ~tictactoes[v].game_over
        /\ tictactoes[v].move_count = 3
        /\ tictactoes[v].board[4] = "X"
        /\ tictactoes[v].board[0] = "O"
        /\ tictactoes[v].board[8] = "X"
        /\ tictactoes[v].current_player = tictactoes[v].players[2]

\* the cells of a board that hold a symbol
CellsOf(view, symbol) == {q \in Positions : view.board[q] = symbol}

\* C23: while a game is not over, move_count is the number of occupied cells,
\* the first player's cells are as many as the second player's or one more,
\* current_player_index is move_count mod 2 and names the current player, and
\* the two players are distinct; and the command starts the game with the
\* challenger to move.
C23_TurnsAlternate ==
    /\ [](\A v \in DOMAIN tictactoes :
            ~tictactoes[v].game_over =>
                LET view == tictactoes[v]
                    x == Cardinality(CellsOf(view, "X"))
                    o == Cardinality(CellsOf(view, "O"))
                IN  /\ view.move_count = x + o
                    /\ x - o \in {0, 1}
                    /\ view.current_player_index = view.move_count % 2
                    /\ view.current_player = view.players[view.current_player_index + 1]
                    /\ view.players[1] # view.players[2])
    /\ [][ \A a \in Users : \A o \in Users :
              tictactoe(a, o) =>
                  LET view == tictactoes'[Len(tictactoes')]
                  IN  /\ view.players = <<a, o>>
                      /\ view.current_player = a
                      /\ view.move_count = 0
          ]_vars

\* a game in progress after four moves, two cells each, the challenger (user
\* 2) to move again
C23_Witness ==
    \E v \in DOMAIN tictactoes :
        /\ ~tictactoes[v].game_over
        /\ tictactoes[v].players = <<2, 1>>
        /\ tictactoes[v].move_count = 4
        /\ Cardinality(CellsOf(tictactoes[v], "X")) = 2
        /\ Cardinality(CellsOf(tictactoes[v], "O")) = 2
        /\ tictactoes[v].current_player = 2
\* ------------------------------------------------------------------------
\* Rate limiting: specification and claims
\* ------------------------------------------------------------------------

NextRate ==
    \/ \E u \in Users : is_rate_limited(u)
    \/ \E t \in CallTimes : clock_advance(t)

SpecRate == Init /\ [][NextRate]_vars

\* the calls of a user that were allowed at a time t with lo <= t < hi
AllowedIn(u, lo, hi) == {i \in DOMAIN allowed[u] : lo <= allowed[u][i] /\ allowed[u][i] < hi}

\* C17: for every user and every interval [t, t + 120) of 120
\* seconds, at most 5 calls with a time in the interval were allowed; the stored
\* list of a user never holds more than 5 entries; and a call of one user
\* changes neither the stored list nor the allowed calls of another user.
\* (An interval that holds calls holds no more of them than the interval of the
\* same length that starts at its first call, so t ranges over the call times.)
C17_AtMostFivePerWindow ==
    [][ \A u \in Users :
          /\ \A t \in CallTimes :
                Cardinality(AllowedIn(u, t, t + TIME_WINDOW)') <= RATE_LIMIT
          /\ Len(user_command_timestamps'[u]) <= RATE_LIMIT
          /\ is_rate_limited(u) =>
                \A w \in Users \ {u} :
                    /\ user_command_timestamps'[w] = user_command_timestamps[w]
                    /\ allowed'[w] = allowed[w]
                    /\ rate_result'[w] = rate_result[w]
      ]_vars

\* user 1 was allowed five calls at time 0 and further calls once they had left
\* the window, and the last call of user 1 was refused; user 2 has used one call
C17_Witness ==
    /\ Len(allowed[1]) > RATE_LIMIT
    /\ Cardinality(AllowedIn(1, 0, 1)) = RATE_LIMIT
    /\ rate_result[1] = "True"
    /\ Len(allowed[2]) = 1
\* ------------------------------------------------------------------------
\* Game statistics: specification and claims
\* ------------------------------------------------------------------------

NextStats ==
    \E k \in StatKeys, won \in BOOLEAN :
        Len(game_stats) < MaxUpdates /\ update_game_stats(k, won)

SpecStats == Init /\ [][NextStats]_vars

\* C18 (as claimed): after n successful updates for a key, w of them won,
\* get_game_stats for the key returns wins = w, losses = n - w, total_games = n.
C18_StatsCountUpdates ==
    \A k \in StatKeys :
        get_game_stats(game_stats, k) =
            [wins        |-> Count(TRUE, updates[k]),
             losses      |-> Len(updates[k]) - Count(TRUE, updates[k]),
             total_games |-> Len(updates[k])]
\* ------------------------------------------------------------------------
\* Reminder loop: further claims (under SpecReminders)
\* ------------------------------------------------------------------------

\* C19 (as claimed): a create_event handled while a pass of check_reminders is
\* suspended does not break the pass; the reminder loop never stops.
C19_LoopSurvivesCreate == rpc # "stopped"

\* C20 (as claimed): the reminder_sent flag of an event is true only if a
\* reminder for the event was handed to channel.send.
C20_FlagOnlyIfSent ==
    \A o \in DOMAIN heap : heap[o].reminder_sent => sent[o] > 0
====
